---- MODULE Spec2Model ----
(***************************************************************************)
(* TrustChain Campus dashboard: the React application (App shell, wallet   *)
(* adapter, the view components) as a state machine.  One step is one      *)
(* JavaScript task: an event handler run up to its first await, or the     *)
(* continuation of a handler run when the promise it awaits settles.       *)
(* React state set in a task is committed before the next event.           *)
(***************************************************************************)
EXTENDS Integers, Sequences, FiniteSets, Bags, TLC

(***************************************************************************)
(* Bounds of the model.                                                    *)
(***************************************************************************)
\* blanks typed before and after a text
MaxPad == 1
\* calls of one handler that may be pending at once before the model stops
\* starting more (the user interface never gets there; direct calls do)
MaxInflight == 2
\* user triggers counted per mounted panel
MaxTriggers == 2

(***************************************************************************)
(* Program constants.                                                      *)
(***************************************************************************)
MinTitleLen == 5
MinDescLen == 20

(***************************************************************************)
(* JavaScript values.  undefined, null, booleans and strings are encoded   *)
(* as strings; a text typed into an input is a sequence of characters.     *)
(***************************************************************************)
Undefined == "undefined"
Null == "null"
Falsy == {Undefined, Null, "", "false"}

Truthy(v) == v \notin Falsy

\* a || b
OrElse(a, b) == IF Truthy(a) THEN a ELSE b

WhiteSpace == {" ", "\t", "\n"}

RECURSIVE TrimStart(_)
TrimStart(s) ==
    IF s # << >> /\ Head(s) \in WhiteSpace THEN TrimStart(Tail(s)) ELSE s

RECURSIVE TrimEnd(_)
TrimEnd(s) ==
    IF s # << >> /\ s[Len(s)] \in WhiteSpace
    THEN TrimEnd(SubSeq(s, 1, Len(s) - 1))
    ELSE s

\* String.prototype.trim
Trim(s) == TrimEnd(TrimStart(s))

Blanks(n) == [i \in 1..n |-> " "]

\* n characters, no blank at either end, one blank inside when n >= 3
Word(n) == [i \in 1..n |-> IF i = 2 /\ n >= 3 THEN " " ELSE "a"]

Text(p, n) == Blanks(p) \o Word(n) \o Blanks(p)

\* what the user may type into the title and the description inputs
Titles == {Text(p, n) : p \in 0..MaxPad, n \in {0, MinTitleLen - 1, MinTitleLen}}
Descriptions == {Text(p, n) : p \in 0..MaxPad, n \in {0, MinDescLen - 1, MinDescLen}}
CertificateIds == {Text(p, n) : p \in 0..MaxPad, n \in {0, 1}}

Addresses == {"ADDR-A", "ADDR-B"}
ProposalIds == {1, 2}
Votes == {"yes", "no"}
Tabs == {"overview", "proposals", "voting", "attendance", "certificates", "analytics"}

(***************************************************************************)
(* Messages shown by the panels.                                           *)
(***************************************************************************)
NoMessage == [type |-> Null, text |-> Null]
Error(text) == [type |-> "error", text |-> text]
Success(text) == [type |-> "success", text |-> text]

ConnectWalletFirst == "Please connect your wallet first"
NetworkError == "Network error. Please check your connection and try again."
TitleMissing == "Please enter a proposal title"
TitleTooShort == "Title must be at least 5 characters"
DescriptionMissing == "Please enter a proposal description"
DescriptionTooShort == "Description must be at least 20 characters"
ProposalCreated == "Proposal created successfully!"
ProposalFailed == "Failed to create proposal. Please try again."
VoteSubmitted(vote) == "Vote \"" \o vote \o "\" submitted successfully!"
VoteFailed == "Failed to submit vote. Please try again."
AttendanceMarked == "Attendance marked successfully!"
AttendanceFailed == "Failed to mark attendance. Please try again."
CertificateIdMissing == "Please enter a certificate ID"
CertificateVerified == "Certificate verified successfully!"
CertificateInvalid == "Certificate not found or invalid"
VerifyFailed == "Failed to verify certificate. Please try again."

\* 'TX-' + Date.now()
Placeholder == "TX-<timestamp>"

(***************************************************************************)
(* What a fetch may settle with: a rejection (thrown), or a response with  *)
(* a status (ok: 2xx) and a body.  response.json() rejects on a body that  *)
(* is not JSON; the JSON value null parses, and reading a property of it   *)
(* throws a TypeError.                                                     *)
(***************************************************************************)
NoFields ==
    [transactionHash |-> Undefined, txId |-> Undefined, error |-> Undefined,
     valid |-> Undefined, certificate |-> Undefined, proposals |-> Undefined,
     id |-> 0, status |-> Undefined, history |-> Undefined]

Body(json, fields) == [json |-> json, data |-> fields]

Unparseable == Body("unparseable", NoFields)
JsonNull == Body("null", NoFields)
Object(fields) == Body("object", fields)

Thrown == [thrown |-> TRUE, ok |-> FALSE, body |-> Unparseable]
Http(ok, body) == [thrown |-> FALSE, ok |-> ok, body |-> body]

\* bodies of the answers to the POSTs of proposals, votes and attendance
TxBodies ==
    {Unparseable, JsonNull}
    \cup {Object([NoFields EXCEPT !.transactionHash = h, !.txId = t]) :
            h \in {Undefined, "", "0xHASH"}, t \in {Undefined, "TXID"}}
    \cup {Object([NoFields EXCEPT !.error = e]) : e \in {"", "server says no"}}

TxResponses == {Thrown} \cup {Http(ok, b) : ok \in BOOLEAN, b \in TxBodies}

\* await response.json() then reading data.<field> throws
JsonThrows(r) == r.body.json = "unparseable"
ReadThrows(r) == r.body.json # "object"

(***************************************************************************)
(* State.                                                                  *)
(***************************************************************************)
VARIABLES
    router,         \* vanilla app: window.history and the popstate listener
    sentiment,      \* vanilla app: a call of AIService.getSentiment, its text and result
    activeTab,      \* App: the tab shown
    walletAddress,  \* App: the connected address, or Null
    wc,             \* WalletConnect: accountAddress, isConnecting
    pf,             \* ProposalForm: title, description, isSubmitting, message, transactionHash
    vp,             \* VotingPanel: proposals, selectedProposal, isVoting, isLoading, message, transactionHash
    ap,             \* AttendancePanel: isMarking, message, transactionHash, attendanceHistory, attendanceStatus
    cp,             \* CertificatePanel: certificateId, isVerifying, message, certificateDetails
    ad,             \* AnalyticsDashboard: analytics, isLoading
    inflight,       \* bag of the handler calls waiting for a promise
    triggered,      \* times the mounted panel's mutating handler was called
    posted,         \* POST requests that handler sent
    store,          \* vanilla app: Store.state, the rendered view, the latest toast, the analytics calls
    dao,            \* vanilla script: userAccount, the latest alert
    ops             \* vanilla: bag of the operations waiting for a promise or a timer

vars == <<activeTab, walletAddress, wc, pf, vp, ap, cp, ad, inflight, triggered, posted,
          store, dao, ops, router, sentiment>>
react == <<activeTab, walletAddress, wc, pf, vp, ap, cp, ad, inflight, triggered, posted>>
vanilla == <<store, dao, ops, router, sentiment>>

app == <<activeTab, walletAddress, wc>>
counters == <<triggered, posted>>

\* a pending call: the handler, the promise it awaits, what its closure holds
Call(op, stage, pid, vote, wallet) ==
    [op |-> op, stage |-> stage, pid |-> pid, vote |-> vote, wallet |-> wallet]

Pending(op) == {c \in BagToSet(inflight) : c.op = op}
PendingCount(op) == BagCardinality([c \in Pending(op) |-> CopiesIn(c, inflight)])

Add(bag, c) == bag (+) SetToBag({c})
Remove(bag, c) == bag (-) SetToBag({c})


(***************************************************************************)
(* ProposalForm                                                            *)
(***************************************************************************)
ProposalFormInit ==
    [title |-> << >>, description |-> << >>, isSubmitting |-> FALSE,
     message |-> NoMessage, transactionHash |-> Null]

\* validateForm measuring the inputs as typed, without trim()
validateFormUntrimmed(title, description) ==
    IF Len(title) = 0 THEN Error(TitleMissing)
    ELSE IF Len(title) < MinTitleLen THEN Error(TitleTooShort)
    ELSE IF Len(description) = 0 THEN Error(DescriptionMissing)
    ELSE IF Len(description) < MinDescLen THEN Error(DescriptionTooShort)
    ELSE NoMessage

\* validateForm without its checks of the description
validateFormTitleOnly(title, description) ==
    IF Len(Trim(title)) = 0 THEN Error(TitleMissing)
    ELSE IF Len(Trim(title)) < MinTitleLen THEN Error(TitleTooShort)
    ELSE NoMessage

\* the message validateForm sets, NoMessage when it returns true
validateForm(title, description) ==
    IF Len(Trim(title)) = 0 THEN Error(TitleMissing)
    ELSE IF Len(Trim(title)) < MinTitleLen THEN Error(TitleTooShort)
    ELSE IF Len(Trim(description)) = 0 THEN Error(DescriptionMissing)
    ELSE IF Len(Trim(description)) < MinDescLen THEN Error(DescriptionTooShort)
    ELSE NoMessage


\* the submit button's disabled attribute
SubmitDisabled == pf.isSubmitting \/ ~Truthy(walletAddress)

\* handleSubmit clearing the previous message and not the previous hash
handleSubmitKeepsHash ==
    LET cleared == [pf EXCEPT !.message = NoMessage]
        invalid == validateForm(pf.title, pf.description)
    IN  IF ~Truthy(walletAddress)
        THEN /\ pf' = [cleared EXCEPT !.message = Error(ConnectWalletFirst)]
             /\ inflight' = inflight
        ELSE IF invalid # NoMessage
        THEN /\ pf' = [cleared EXCEPT !.message = invalid]
             /\ inflight' = inflight
        ELSE /\ pf' = [cleared EXCEPT !.isSubmitting = TRUE]
             /\ inflight' = Add(inflight,
                    Call("handleSubmit", "POST /api/proposals", 0, Null, Null))

\* handleSubmit up to its first await
handleSubmit ==
    LET cleared == [pf EXCEPT !.message = NoMessage, !.transactionHash = Null]
        invalid == validateForm(pf.title, pf.description)
    IN  IF ~Truthy(walletAddress)
        THEN /\ pf' = [cleared EXCEPT !.message = Error(ConnectWalletFirst)]
             /\ inflight' = inflight
        ELSE IF invalid # NoMessage
        THEN /\ pf' = [cleared EXCEPT !.message = invalid]
             /\ inflight' = inflight
        ELSE /\ pf' = [cleared EXCEPT !.isSubmitting = TRUE]
             /\ inflight' = Add(inflight,
                    Call("handleSubmit", "POST /api/proposals", 0, Null, Null))

\* handleSubmit from the fetch settling to its end
handleSubmitSettled(c, r) ==
    LET shown ==
            IF r.thrown \/ JsonThrows(r) THEN
                [pf EXCEPT !.message = Error(NetworkError)]
            ELSE IF r.ok THEN
                IF ReadThrows(r) THEN
                    \* setMessage(success) ran, data.transactionHash threw
                    [pf EXCEPT !.message = Error(NetworkError)]
                ELSE
                    [pf EXCEPT !.message = Success(ProposalCreated),
                               !.transactionHash =
                                   OrElse(r.body.data.transactionHash,
                                          OrElse(r.body.data.txId, Placeholder)),
                               !.title = << >>,
                               !.description = << >>]
            ELSE
                IF ReadThrows(r) THEN
                    [pf EXCEPT !.message = Error(NetworkError)]
                ELSE
                    [pf EXCEPT !.message =
                                   Error(OrElse(r.body.data.error, ProposalFailed))]
    IN  /\ pf' = [shown EXCEPT !.isSubmitting = FALSE]
        /\ inflight' = Remove(inflight, c)

(***************************************************************************)
(* App shell and WalletConnect                                             *)
(***************************************************************************)
\* alert: what the latest call of handleConnect told the user with alert()
WalletConnectInit == [accountAddress |-> Null, isConnecting |-> FALSE, alert |-> Null]

ConnectionCancelled == "Wallet connection was cancelled"
ConnectionFailed == "Failed to connect wallet. Please try again."

\* error.message of a rejected peraWallet.connect()
UserRejected == "User rejected"
ConnectErrors == {UserRejected, "Connect modal is closed"}

\* what the fetch of the notification settles with; its body is never read
NotifyResponses == {Thrown, Http(TRUE, Unparseable), Http(FALSE, Unparseable)}

\* what peraWallet.connect() and reconnectSession() may resolve with
AccountLists == {<< >>} \cup {<<a>> : a \in Addresses}

\* App.handleWalletChange: setWalletAddress(address)
handleWalletChange(address) == walletAddress' = address

\* the calls of the wallet adapter, which stays mounted on every tab
WalletOps == {"reconnectSession", "handleConnect"}

\* counting a call of the mounted panel's handler and the POST it sent, if any
Count ==
    /\ triggered < MaxTriggers
    /\ triggered' = triggered + 1
    /\ posted' = IF inflight' # inflight THEN posted + 1 ELSE posted

(***************************************************************************)
(* Events of the ProposalForm                                              *)
(***************************************************************************)
ChangeTitle ==
    /\ activeTab = "proposals"
    /\ \E t \in Titles : t # pf.title /\ pf' = [pf EXCEPT !.title = t]
    /\ UNCHANGED <<app, vp, ap, cp, ad, inflight, counters, vanilla>>

ChangeDescription ==
    /\ activeTab = "proposals"
    /\ \E d \in Descriptions : d # pf.description /\ pf' = [pf EXCEPT !.description = d]
    /\ UNCHANGED <<app, vp, ap, cp, ad, inflight, counters, vanilla>>

\* the form is submitted through its enabled submit button
SubmitForm ==
    /\ activeTab = "proposals"
    /\ ~SubmitDisabled
    /\ handleSubmit
    /\ Count
    /\ UNCHANGED <<app, vp, ap, cp, ad, vanilla>>

\* a failed request sent again without the user asking
SubmitSettledRetries ==
    /\ \E c \in Pending("handleSubmit") : \E r \in TxResponses :
         IF r.thrown \/ ~r.ok
         THEN /\ posted' = posted + 1
              /\ UNCHANGED <<pf, inflight, triggered>>
         ELSE /\ handleSubmitSettled(c, r)
              /\ UNCHANGED counters
    /\ UNCHANGED <<app, vp, ap, cp, ad, vanilla>>

SubmitSettled ==
    /\ \E c \in Pending("handleSubmit") : \E r \in TxResponses :
         /\ handleSubmitSettled(c, r)
    /\ UNCHANGED <<app, vp, ap, cp, ad, counters, vanilla>>

(***************************************************************************)
(* VotingPanel.  A proposal is represented by its id and by whether it is  *)
(* the list's entry or the answer of GET /api/proposals/:id.               *)
(***************************************************************************)
NoProposal == [id |-> 0, detail |-> FALSE]
Listed(p) == [id |-> p, detail |-> FALSE]
Detailed(p) == [id |-> p, detail |-> TRUE]

\* selected: the id of the proposal passed to the latest selectProposal, 0
\* before the first; it is not read by the panel
VotingPanelInit ==
    [proposals |-> {}, selectedProposal |-> NoProposal, isVoting |-> FALSE,
     isLoading |-> TRUE, message |-> NoMessage, transactionHash |-> Null,
     selected |-> 0]

\* answers to GET /api/proposals and to GET /api/proposals/:id
ListBodies ==
    {Unparseable, JsonNull, Object(NoFields),
     Object([NoFields EXCEPT !.proposals = "all"])}
ListResponses == {Thrown} \cup {Http(ok, b) : ok \in BOOLEAN, b \in ListBodies}
DetailBodies(p) == {Unparseable, JsonNull, Object([NoFields EXCEPT !.id = p])}
DetailResponses(p) == {Thrown} \cup {Http(ok, b) : ok \in BOOLEAN, b \in DetailBodies(p)}

\* fetchProposals from the fetch settling to its end: data.proposals || []
fetchProposalsSettled(v, r) ==
    LET loaded ==
            IF ~r.thrown /\ r.ok /\ ~ReadThrows(r)
            THEN [v EXCEPT !.proposals =
                     IF Truthy(r.body.data.proposals) THEN ProposalIds ELSE {}]
            ELSE v
    IN  [loaded EXCEPT !.isLoading = FALSE]

\* fetchProposalDetails from the fetch settling to its end: setSelectedProposal(data)
fetchProposalDetailsSettled(v, r) ==
    IF ~r.thrown /\ r.ok /\ ~JsonThrows(r)
    THEN [v EXCEPT !.selectedProposal =
             IF r.body.json = "null" THEN NoProposal ELSE Detailed(r.body.data.id)]
    ELSE v

\* the vote buttons disabled for lack of a wallet only, not while a vote is sent
VoteDisabledWalletOnly == ~Truthy(walletAddress)

\* the vote buttons are rendered for a selected proposal; their disabled attribute
VoteRendered == vp.selectedProposal # NoProposal
VoteDisabled == vp.isVoting \/ ~Truthy(walletAddress)

\* handleVote without its check of walletAddress
handleVoteUnchecked(proposalId, vote) ==
    /\ vp' = [vp EXCEPT !.message = NoMessage, !.transactionHash = Null,
                        !.isVoting = TRUE]
    /\ inflight' = Add(inflight,
           Call("handleVote", "POST /api/vote", proposalId, vote, Null))

\* handleVote up to its first await
handleVote(proposalId, vote) ==
    LET cleared == [vp EXCEPT !.message = NoMessage, !.transactionHash = Null]
    IN  IF ~Truthy(walletAddress)
        THEN /\ vp' = [cleared EXCEPT !.message = Error(ConnectWalletFirst)]
             /\ inflight' = inflight
        ELSE /\ vp' = [cleared EXCEPT !.isVoting = TRUE]
             /\ inflight' = Add(inflight,
                    Call("handleVote", "POST /api/vote", proposalId, vote, Null))

\* handleVote from a promise settling to its next await or its end
handleVoteSettled(c, r) ==
    LET next(stage) == Add(Remove(inflight, c), [c EXCEPT !.stage = stage])
        failed(text) ==
            /\ vp' = [vp EXCEPT !.message = Error(text), !.isVoting = FALSE]
            /\ inflight' = Remove(inflight, c)
    IN  CASE c.stage = "POST /api/vote" ->
                IF r.thrown \/ JsonThrows(r) THEN failed(NetworkError)
                ELSE IF ReadThrows(r) THEN failed(NetworkError)
                ELSE IF r.ok THEN
                    /\ vp' = [vp EXCEPT !.message = Success(VoteSubmitted(c.vote)),
                                        !.transactionHash =
                                            OrElse(r.body.data.transactionHash,
                                                   OrElse(r.body.data.txId, Placeholder))]
                    /\ inflight' = next("GET /api/proposals/:id")
                ELSE failed(OrElse(r.body.data.error, VoteFailed))
          [] c.stage = "GET /api/proposals/:id" ->
                \* fetchProposalDetails returned; fetchProposals starts
                /\ vp' = [fetchProposalDetailsSettled(vp, r) EXCEPT !.isLoading = TRUE]
                /\ inflight' = next("GET /api/proposals")
          [] c.stage = "GET /api/proposals" ->
                /\ vp' = [fetchProposalsSettled(vp, r) EXCEPT !.isVoting = FALSE]
                /\ inflight' = Remove(inflight, c)

\* selectProposal: the detail fetch is started and not awaited
selectProposal(p) ==
    /\ vp' = [vp EXCEPT !.selectedProposal = Listed(p), !.message = NoMessage,
                        !.transactionHash = Null, !.selected = p]
    /\ inflight' = Add(inflight,
           Call("fetchProposalDetails", "GET /api/proposals/:id", p, Null, Null))

\* a list entry is clicked: the list is rendered once loaded
ClickProposal ==
    /\ activeTab = "voting"
    /\ ~vp.isLoading
    /\ PendingCount("fetchProposalDetails") < MaxInflight
    /\ \E p \in vp.proposals : selectProposal(p)
    /\ UNCHANGED <<app, pf, ap, cp, ad, counters, vanilla>>

ProposalsSettled ==
    /\ \E c \in Pending("fetchProposals") : \E r \in ListResponses :
         /\ vp' = fetchProposalsSettled(vp, r)
         /\ inflight' = Remove(inflight, c)
    /\ UNCHANGED <<app, pf, ap, cp, ad, counters, vanilla>>

DetailsSettled ==
    /\ \E c \in Pending("fetchProposalDetails") : \E r \in DetailResponses(c.pid) :
         /\ vp' = fetchProposalDetailsSettled(vp, r)
         /\ inflight' = Remove(inflight, c)
    /\ UNCHANGED <<app, pf, ap, cp, ad, counters, vanilla>>

\* a vote button of the selected proposal is clicked
ClickVote ==
    /\ activeTab = "voting"
    /\ VoteRendered
    /\ ~VoteDisabled
    /\ \E vote \in Votes : handleVote(vp.selectedProposal.id, vote)
    /\ Count
    /\ UNCHANGED <<app, pf, ap, cp, ad, vanilla>>

VoteSettled ==
    /\ \E c \in Pending("handleVote") :
         \E r \in CASE c.stage = "POST /api/vote" -> TxResponses
                    [] c.stage = "GET /api/proposals/:id" -> DetailResponses(c.pid)
                    [] OTHER -> ListResponses :
           /\ handleVoteSettled(c, r)
    /\ UNCHANGED <<app, pf, ap, cp, ad, counters, vanilla>>

(***************************************************************************)
(* AttendancePanel.  The status and the history the backend returns for a  *)
(* wallet are represented by that wallet's address.                        *)
(***************************************************************************)
NoHistory == "[]"

AttendancePanelInit ==
    [isMarking |-> FALSE, message |-> NoMessage, transactionHash |-> Null,
     attendanceHistory |-> NoHistory, attendanceStatus |-> Null]

\* answers to GET /api/attendance?walletAddress=...
StatusBodies ==
    {Unparseable, JsonNull}
    \cup {Object([NoFields EXCEPT !.status = s, !.history = h]) :
            s \in {Undefined, "present"}, h \in {Undefined, "records"}}
StatusResponses == {Thrown} \cup {Http(ok, b) : ok \in BOOLEAN, b \in StatusBodies}

\* fetchAttendanceStatus from the fetch settling to its end
fetchAttendanceStatusSettled(a, wallet, r) ==
    IF ~r.thrown /\ r.ok /\ ~ReadThrows(r)
    THEN [a EXCEPT !.attendanceStatus =
                       IF r.body.data.status = Undefined THEN Undefined ELSE wallet,
                   !.attendanceHistory =
                       IF Truthy(r.body.data.history) THEN wallet ELSE NoHistory]
    ELSE a

\* the call the effect on [walletAddress] starts when the panel is shown
StatusFetch(wallet) ==
    Call("fetchAttendanceStatus", "GET /api/attendance", 0, Null, wallet)

\* the mark button's disabled attribute
MarkDisabled == ap.isMarking \/ ~Truthy(walletAddress)

\* handleMarkAttendance up to its first await
handleMarkAttendance ==
    LET cleared == [ap EXCEPT !.message = NoMessage, !.transactionHash = Null]
    IN  IF ~Truthy(walletAddress)
        THEN /\ ap' = [cleared EXCEPT !.message = Error(ConnectWalletFirst)]
             /\ inflight' = inflight
        ELSE /\ ap' = [cleared EXCEPT !.isMarking = TRUE]
             /\ inflight' = Add(inflight,
                    Call("handleMarkAttendance", "POST /api/attendance", 0, Null,
                         walletAddress))

\* handleMarkAttendance resetting isMarking at the end of its try block
\* instead of in a finally block
handleMarkAttendanceSettledNoFinally(c, r) ==
    LET failed(text) ==
            /\ ap' = [ap EXCEPT !.message = Error(text)]
            /\ inflight' = Remove(inflight, c)
    IN  CASE c.stage = "POST /api/attendance" ->
                IF r.thrown \/ JsonThrows(r) THEN failed(NetworkError)
                ELSE IF ReadThrows(r) THEN failed(NetworkError)
                ELSE IF r.ok THEN
                    /\ ap' = [ap EXCEPT !.message = Success(AttendanceMarked),
                                        !.transactionHash =
                                            OrElse(r.body.data.transactionHash,
                                                   OrElse(r.body.data.txId, Placeholder))]
                    /\ inflight' = Add(Remove(inflight, c),
                                       [c EXCEPT !.stage = "GET /api/attendance"])
                ELSE /\ ap' = [ap EXCEPT
                                 !.message = Error(OrElse(r.body.data.error, AttendanceFailed)),
                                 !.isMarking = FALSE]
                     /\ inflight' = Remove(inflight, c)
          [] c.stage = "GET /api/attendance" ->
                /\ ap' = [fetchAttendanceStatusSettled(ap, c.wallet, r)
                            EXCEPT !.isMarking = FALSE]
                /\ inflight' = Remove(inflight, c)

\* handleMarkAttendance from a promise settling to its next await or its end
handleMarkAttendanceSettled(c, r) ==
    LET failed(text) ==
            /\ ap' = [ap EXCEPT !.message = Error(text), !.isMarking = FALSE]
            /\ inflight' = Remove(inflight, c)
    IN  CASE c.stage = "POST /api/attendance" ->
                IF r.thrown \/ JsonThrows(r) THEN failed(NetworkError)
                ELSE IF ReadThrows(r) THEN failed(NetworkError)
                ELSE IF r.ok THEN
                    /\ ap' = [ap EXCEPT !.message = Success(AttendanceMarked),
                                        !.transactionHash =
                                            OrElse(r.body.data.transactionHash,
                                                   OrElse(r.body.data.txId, Placeholder))]
                    /\ inflight' = Add(Remove(inflight, c),
                                       [c EXCEPT !.stage = "GET /api/attendance"])
                ELSE failed(OrElse(r.body.data.error, AttendanceFailed))
          [] c.stage = "GET /api/attendance" ->
                \* the closure's fetchAttendanceStatus asked for the closure's wallet
                /\ ap' = [fetchAttendanceStatusSettled(ap, c.wallet, r)
                            EXCEPT !.isMarking = FALSE]
                /\ inflight' = Remove(inflight, c)

StatusSettled ==
    /\ \E c \in Pending("fetchAttendanceStatus") : \E r \in StatusResponses :
         /\ ap' = fetchAttendanceStatusSettled(ap, c.wallet, r)
         /\ inflight' = Remove(inflight, c)
    /\ UNCHANGED <<app, pf, vp, cp, ad, counters, vanilla>>

ClickMark ==
    /\ activeTab = "attendance"
    /\ ~MarkDisabled
    /\ handleMarkAttendance
    /\ Count
    /\ UNCHANGED <<app, pf, vp, cp, ad, vanilla>>

MarkSettled ==
    /\ \E c \in Pending("handleMarkAttendance") :
         \E r \in IF c.stage = "POST /api/attendance" THEN TxResponses
                  ELSE StatusResponses :
           /\ handleMarkAttendanceSettled(c, r)
    /\ UNCHANGED <<app, pf, vp, cp, ad, counters, vanilla>>

(***************************************************************************)
(* CertificatePanel                                                        *)
(***************************************************************************)
CertificatePanelInit ==
    [certificateId |-> << >>, isVerifying |-> FALSE, message |-> NoMessage,
     certificateDetails |-> Null]

\* answers to POST /api/certificate/verify
VerifyBodies ==
    {Unparseable, JsonNull}
    \cup {Object([NoFields EXCEPT !.valid = v, !.certificate = k]) :
            v \in {Undefined, "false", "true"}, k \in {Undefined, "CERT"}}
    \cup {Object([NoFields EXCEPT !.error = e]) : e \in {"", "server says no"}}
VerifyResponses == {Thrown} \cup {Http(ok, b) : ok \in BOOLEAN, b \in VerifyBodies}

\* the verify button's disabled attribute
VerifyDisabled == cp.isVerifying

\* handleVerify without setCertificateDetails(null) at its start
handleVerifyKeepsDetails ==
    LET cleared == [cp EXCEPT !.message = NoMessage]
    IN  IF Len(Trim(cp.certificateId)) = 0
        THEN /\ cp' = [cleared EXCEPT !.message = Error(CertificateIdMissing)]
             /\ inflight' = inflight
        ELSE /\ cp' = [cleared EXCEPT !.isVerifying = TRUE]
             /\ inflight' = Add(inflight,
                    Call("handleVerify", "POST /api/certificate/verify", 0, Null, Null))

\* handleVerify up to its first await
handleVerify ==
    LET cleared == [cp EXCEPT !.message = NoMessage, !.certificateDetails = Null]
    IN  IF Len(Trim(cp.certificateId)) = 0
        THEN /\ cp' = [cleared EXCEPT !.message = Error(CertificateIdMissing)]
             /\ inflight' = inflight
        ELSE /\ cp' = [cleared EXCEPT !.isVerifying = TRUE]
             /\ inflight' = Add(inflight,
                    Call("handleVerify", "POST /api/certificate/verify", 0, Null, Null))

\* handleVerify whose catch block only logs
handleVerifySettledNoCatch(c, r) ==
    LET shown ==
            IF r.thrown \/ JsonThrows(r) \/ ReadThrows(r) THEN cp
            ELSE IF r.ok THEN
                IF Truthy(r.body.data.valid)
                THEN [cp EXCEPT !.message = Success(CertificateVerified),
                                !.certificateDetails = r.body.data.certificate]
                ELSE [cp EXCEPT !.message = Error(CertificateInvalid)]
            ELSE
                [cp EXCEPT !.message = Error(OrElse(r.body.data.error, VerifyFailed))]
    IN  /\ cp' = [shown EXCEPT !.isVerifying = FALSE]
        /\ inflight' = Remove(inflight, c)

\* handleVerify from the fetch settling to its end
handleVerifySettled(c, r) ==
    LET shown ==
            IF r.thrown \/ JsonThrows(r) THEN
                [cp EXCEPT !.message = Error(NetworkError)]
            ELSE IF ReadThrows(r) THEN
                [cp EXCEPT !.message = Error(NetworkError)]
            ELSE IF r.ok THEN
                IF Truthy(r.body.data.valid)
                THEN [cp EXCEPT !.message = Success(CertificateVerified),
                                !.certificateDetails = r.body.data.certificate]
                ELSE [cp EXCEPT !.message = Error(CertificateInvalid)]
            ELSE
                [cp EXCEPT !.message = Error(OrElse(r.body.data.error, VerifyFailed))]
    IN  /\ cp' = [shown EXCEPT !.isVerifying = FALSE]
        /\ inflight' = Remove(inflight, c)

ChangeCertificateId ==
    /\ activeTab = "certificates"
    /\ \E k \in CertificateIds :
         k # cp.certificateId /\ cp' = [cp EXCEPT !.certificateId = k]
    /\ UNCHANGED <<app, pf, vp, ap, ad, inflight, counters, vanilla>>

SubmitVerify ==
    /\ activeTab = "certificates"
    /\ ~VerifyDisabled
    /\ handleVerify
    /\ Count
    /\ UNCHANGED <<app, pf, vp, ap, ad, vanilla>>

VerifySettled ==
    /\ \E c \in Pending("handleVerify") : \E r \in VerifyResponses :
         /\ handleVerifySettled(c, r)
    /\ UNCHANGED <<app, pf, vp, ap, ad, counters, vanilla>>

(***************************************************************************)
(* AnalyticsDashboard                                                      *)
(***************************************************************************)
AnalyticsDashboardInit == [analytics |-> Null, isLoading |-> TRUE]

\* getMockAnalytics()
MockAnalytics == "mock"
\* the object GET /api/analytics answered
BackendAnalytics == "backend"

AnalyticsBodies == {Unparseable, JsonNull, Object(NoFields)}
AnalyticsResponses == {Thrown} \cup {Http(ok, b) : ok \in BOOLEAN, b \in AnalyticsBodies}

\* fetchAnalytics without the else branch that falls back to the mock data
fetchAnalyticsSettledNoFallback(a, r) ==
    LET data == IF r.body.json = "null" THEN Null ELSE BackendAnalytics
        set  == IF r.thrown THEN MockAnalytics
                ELSE IF r.ok THEN (IF JsonThrows(r) THEN MockAnalytics ELSE data)
                ELSE a.analytics
    IN  [a EXCEPT !.analytics = set, !.isLoading = FALSE]

\* fetchAnalytics from the fetch settling to its end
fetchAnalyticsSettled(a, r) ==
    LET data == IF r.body.json = "null" THEN Null ELSE BackendAnalytics
        set  == IF r.thrown THEN MockAnalytics
                ELSE IF r.ok THEN (IF JsonThrows(r) THEN MockAnalytics ELSE data)
                ELSE MockAnalytics
    IN  [a EXCEPT !.analytics = set, !.isLoading = FALSE]

AnalyticsSettled ==
    /\ \E c \in Pending("fetchAnalytics") : \E r \in AnalyticsResponses :
         /\ ad' = fetchAnalyticsSettled(ad, r)
         /\ inflight' = Remove(inflight, c)
    /\ UNCHANGED <<app, pf, vp, ap, cp, counters, vanilla>>

(***************************************************************************)
(* Events of the wallet adapter and of the tab bar                         *)
(***************************************************************************)
\* the effect of AttendancePanel on [walletAddress]: a changed, connected
\* address starts fetchAttendanceStatus while the panel is shown
AfterWalletChange(bag, address) ==
    IF activeTab = "attendance" /\ address # walletAddress /\ Truthy(address)
    THEN Add(bag, StatusFetch(address))
    ELSE bag

\* the model stops changing the wallet while MaxInflight status fetches wait
WalletMayChange ==
    activeTab = "attendance" => PendingCount("fetchAttendanceStatus") < MaxInflight

\* the then-callback of peraWallet.reconnectSession() in the mount effect
ReconnectSettled ==
    /\ WalletMayChange
    /\ \E c \in Pending("reconnectSession") : \E accounts \in AccountLists :
         IF Len(accounts) > 0
         THEN /\ wc' = [wc EXCEPT !.accountAddress = accounts[1]]
              /\ handleWalletChange(accounts[1])
              /\ inflight' = AfterWalletChange(Remove(inflight, c), accounts[1])
         ELSE /\ inflight' = Remove(inflight, c)
              /\ UNCHANGED <<wc, walletAddress>>
    /\ UNCHANGED <<activeTab, pf, vp, ap, cp, ad, counters, vanilla>>

\* handleConnect up to its first await; the Connect button is rendered while
\* no account is connected and is disabled while connecting
ClickConnect ==
    /\ ~Truthy(wc.accountAddress)
    /\ ~wc.isConnecting
    /\ wc' = [wc EXCEPT !.isConnecting = TRUE, !.alert = Null]
    /\ inflight' = Add(inflight, Call("handleConnect", "peraWallet.connect", 0, Null, Null))
    /\ UNCHANGED <<activeTab, walletAddress, pf, vp, ap, cp, ad, counters, vanilla>>

\* the catch block of handleConnect with setIsConnecting(false) at the end of
\* the try block instead of in a finally block
connectRejectedNoFinally(w, error) ==
    [w EXCEPT !.alert = IF error = UserRejected THEN ConnectionCancelled
                        ELSE ConnectionFailed]

\* the catch block of handleConnect and its finally
connectRejected(w, error) ==
    [w EXCEPT !.isConnecting = FALSE,
              !.alert = IF error = UserRejected THEN ConnectionCancelled
                        ELSE ConnectionFailed]

\* the notification answered by the catch block of handleConnect instead of
\* by a try block of its own
notifySettledOuterCatch(w, r) ==
    IF r.thrown THEN connectRejected(w, "fetch failed")
    ELSE [w EXCEPT !.isConnecting = FALSE]

\* handleConnect from the notification settling to its end: the inner catch
\* logs a rejection, the response is not looked at, finally
notifySettled(w, r) == [w EXCEPT !.isConnecting = FALSE]

\* handleConnect from a promise settling to its next await or its end
ConnectSettled ==
    /\ WalletMayChange
    /\ \E c \in Pending("handleConnect") :
         CASE c.stage = "peraWallet.connect" ->
                \/ \E accounts \in AccountLists :
                     IF Len(accounts) > 0
                     THEN /\ wc' = [wc EXCEPT !.accountAddress = accounts[1]]
                          /\ handleWalletChange(accounts[1])
                          /\ inflight' = AfterWalletChange(
                                 Add(Remove(inflight, c),
                                     [c EXCEPT !.stage = "POST /api/wallet/connect",
                                               !.wallet = accounts[1]]),
                                 accounts[1])
                     ELSE /\ wc' = [wc EXCEPT !.isConnecting = FALSE]
                          /\ inflight' = Remove(inflight, c)
                          /\ UNCHANGED walletAddress
                \/ \* connect() rejected: alert, finally
                   /\ \E error \in ConnectErrors : wc' = connectRejected(wc, error)
                   /\ inflight' = Remove(inflight, c)
                   /\ UNCHANGED walletAddress
           [] OTHER ->
                /\ \E r \in NotifyResponses : wc' = notifySettled(wc, r)
                /\ inflight' = Remove(inflight, c)
                /\ UNCHANGED walletAddress
    /\ UNCHANGED <<activeTab, pf, vp, ap, cp, ad, counters, vanilla>>

\* handleDisconnect without its call of onWalletChange(null)
ClickDisconnectSilent ==
    /\ Truthy(wc.accountAddress)
    /\ wc' = [wc EXCEPT !.accountAddress = Null]
    /\ UNCHANGED <<activeTab, walletAddress, pf, vp, ap, cp, ad, inflight, counters, vanilla>>

\* handleDisconnect; the Disconnect button is rendered while an account is connected
ClickDisconnect ==
    /\ Truthy(wc.accountAddress)
    /\ wc' = [wc EXCEPT !.accountAddress = Null]
    /\ handleWalletChange(Null)
    /\ UNCHANGED <<activeTab, pf, vp, ap, cp, ad, inflight, counters, vanilla>>

\* the calls a panel's mount effects start
MountCalls(tab) ==
    CASE tab \in {"overview", "analytics"} ->
            SetToBag({Call("fetchAnalytics", "GET /api/analytics", 0, Null, Null)})
      [] tab = "voting" ->
            SetToBag({Call("fetchProposals", "GET /api/proposals", 0, Null, Null)})
      [] tab = "attendance" /\ Truthy(walletAddress) ->
            SetToBag({StatusFetch(walletAddress)})
      [] OTHER -> EmptyBag

\* the calls of the wallet adapter among those pending
WalletCalls(bag) ==
    [c \in {x \in BagToSet(bag) : x.op \in WalletOps} |-> CopiesIn(c, bag)]

\* the tab contents App renders: one conditional block per tab id
TabContent == {tab \in Tabs : activeTab = tab}

\* a tab button with WalletConnect rendered inside the tab content, so that it
\* is mounted again with the panel
SetActiveTabRemountsWallet ==
    /\ \E tab \in Tabs \ {activeTab} :
         /\ activeTab' = tab
         /\ inflight' = WalletCalls(inflight) (+) MountCalls(tab)
    /\ pf' = ProposalFormInit
    /\ vp' = VotingPanelInit
    /\ ap' = AttendancePanelInit
    /\ cp' = CertificatePanelInit
    /\ ad' = AnalyticsDashboardInit
    /\ triggered' = 0
    /\ posted' = 0
    /\ walletAddress' = Null
    /\ wc' = WalletConnectInit
    /\ UNCHANGED vanilla

\* a tab button: setActiveTab(tab.id).  The panel shown is unmounted, its state
\* is gone and what its pending calls set later is dropped; the panel of the
\* new tab is mounted with its initial state and runs its mount effects.
SetActiveTab ==
    /\ \E tab \in Tabs \ {activeTab} :
         /\ activeTab' = tab
         /\ inflight' = WalletCalls(inflight) (+) MountCalls(tab)
    /\ pf' = ProposalFormInit
    /\ vp' = VotingPanelInit
    /\ ap' = AttendancePanelInit
    /\ cp' = CertificatePanelInit
    /\ ad' = AnalyticsDashboardInit
    /\ triggered' = 0
    /\ posted' = 0
    /\ UNCHANGED <<walletAddress, wc, vanilla>>

(***************************************************************************)
(* The vanilla implementation: Store, BlockchainService and the views of   *)
(* the single-page app, and the algosdk script with its userAccount.  An   *)
(* operation is one async function call; one step runs it up to its next   *)
(* await, or runs a timer callback.                                        *)
(***************************************************************************)
MaxOps == 2
MaxVotes == 2
MaxDaoOps == 1

\* ROUTES: the pages with a control of the model
Pages == {"dashboard", "governance", "proposal", "wallet"}

\* the mock data of fetchProposals: status and counters by proposal id
mockProposals ==
    [id \in {1042, 1041, 1040, 1039} |->
        CASE id = 1042 -> [status |-> "Active", votesYes |-> 840, votesNo |-> 120]
          [] id = 1041 -> [status |-> "Active", votesYes |-> 300, votesNo |-> 450]
          [] id = 1040 -> [status |-> "Passed", votesYes |-> 1800, votesNo |-> 20]
          [] id = 1039 -> [status |-> "Rejected", votesYes |-> 400, votesNo |-> 1600]]

\* arguments of a call of submitVote made past the buttons: an id no proposal
\* has, a vote that is neither 'yes' nor 'no'
ProposalArgs == {1042, 1040, 1}
VoteArgs == {"yes", "no", "abstain"}

mockAddress == "W23T...X7Z9"
ConnectWalletFirstToast == "Please connect wallet first"
WalletConnectedToast == "Wallet Connected Successfully"
VoteConfirmedToast == "Vote Confirmed On-Chain!"

\* the page as index.html delivers it, before renderApp has run
IndexHtml == [page |-> "index.html"]

\* the balances connectWallet assigns: 125.40 ALGO in hundredths, 5000 GOV
MockBalance == 12540
MockTokenBalance == 5000

\* Store.state, and in view what renderApp put into the page when it last ran;
\* activeProposalId 0 is null, proposals <<>> is the empty array
StoreInit ==
    [currentPage |-> "dashboard",
     user |-> [address |-> Null, isConnected |-> FALSE, balance |-> 0,
               tokenBalance |-> 0, transactions |-> <<>>],
     proposals |-> <<>>,
     activeProposalId |-> 0,
     isLoading |-> FALSE,
     toast |-> NoMessage,
     analyzed |-> 0,
     view |-> IndexHtml]

\* Math.round((votes / totalVotes) * 100): the share in percent, a half
\* rounded up.  The quotient of the doubles rounds to the same integer as
\* the exact one for totalVotes below 40 and for the counts reachable from
\* the mock data.
Percent(votes, totalVotes) == (200 * votes + totalVotes) \div (2 * totalVotes)

\* Components.ProposalDetail: what the page shows of the proposal
ProposalDetail(s) ==
    IF s.activeProposalId \notin DOMAIN s.proposals
    THEN [status |-> "Proposal Not Found"]
    ELSE LET proposal == s.proposals[s.activeProposalId]
             totalVotes == proposal.votesYes + proposal.votesNo
         IN  [status |-> proposal.status,
              votesYes |-> proposal.votesYes,
              votesNo |-> proposal.votesNo,
              yesPercent |-> IF totalVotes = 0 THEN 0
                             ELSE Percent(proposal.votesYes, totalVotes),
              noPercent |-> IF totalVotes = 0 THEN 0
                            ELSE Percent(proposal.votesNo, totalVotes)]

\* the parts of Store.state that the component of the current page reads
renderApp(s) ==
    CASE s.currentPage = "dashboard" ->
            [page |-> "dashboard", tokenBalance |-> s.user.tokenBalance,
             proposals |-> s.proposals]
      [] s.currentPage = "governance" ->
            [page |-> "governance", proposals |-> s.proposals]
      [] s.currentPage = "proposal" ->
            [page |-> "proposal", proposal |-> ProposalDetail(s)]
      [] s.currentPage = "wallet" ->
            IF ~s.user.isConnected
            THEN [page |-> "wallet", prompt |-> TRUE]
            ELSE [page |-> "wallet", prompt |-> FALSE,
                  balance |-> s.user.balance,
                  tokenBalance |-> s.user.tokenBalance,
                  transactions |-> s.user.transactions]

\* no subscriber changes the state; renderApp() runs
notifySubscribers(s) == [s EXCEPT !.view = renderApp(s)]

setLoading(s, bool) == [s EXCEPT !.isLoading = bool]
setUser(s, address) ==
    notifySubscribers([s EXCEPT !.user.address = address,
                                !.user.isConnected = Truthy(address)])
\* params.id 0: the call has no id, and activeProposalId is kept
setPage(s, page, id) ==
    notifySubscribers([s EXCEPT !.currentPage = page,
                                !.activeProposalId = IF id # 0 THEN id ELSE @])
setProposals(s, proposals) == notifySubscribers([s EXCEPT !.proposals = proposals])
\* unshift: the new transaction comes first
addTransaction(s, tx) == notifySubscribers([s EXCEPT !.user.transactions = <<tx>> \o @])

Operation(op, stage, pid, vote) == [op |-> op, stage |-> stage, pid |-> pid, vote |-> vote]
Running(op) == {o \in BagToSet(ops) : o.op = op}
RunningCount(op) == BagCardinality([o \in Running(op) |-> CopiesIn(o, ops)])
InFlight == RunningCount("fetchProposals") + RunningCount("connectWallet")
                + RunningCount("submitVote")
DaoInFlight == BagCardinality(ops) - InFlight

\* fetchProposals, called once by the DOMContentLoaded handler
fetchProposalsSlept(s) == setLoading(setProposals(s, mockProposals), FALSE)

\* BlockchainService.connectWallet after its sleep: setUser, then the two
\* balances assigned to Store.state.user directly
connectWalletSlept(s) ==
    setLoading([setUser(s, mockAddress) EXCEPT
                   !.user.balance = MockBalance,
                   !.user.tokenBalance = MockTokenBalance,
                   !.toast = Success(WalletConnectedToast)],
               FALSE)

\* submitVote that sets isLoading before it looks at the wallet
submitVoteLoadsFirst(proposalId, vote) ==
    IF ~store.user.isConnected
    THEN /\ store' = [setLoading(store, TRUE) EXCEPT
                         !.toast = Error(ConnectWalletFirstToast)]
         /\ ops' = ops
    ELSE /\ store' = setLoading(store, TRUE)
         /\ ops' = Add(ops, Operation("submitVote", "sleep", proposalId, vote))

\* BlockchainService.submitVote up to its first await
submitVote(proposalId, vote) ==
    IF ~store.user.isConnected
    THEN /\ store' = [store EXCEPT !.toast = Error(ConnectWalletFirstToast)]
         /\ ops' = ops
    ELSE /\ store' = setLoading(store, TRUE)
         /\ ops' = Add(ops, Operation("submitVote", "sleep", proposalId, vote))

\* the local update of submitVote with the counters exchanged for the votes
\* that are neither 'yes' nor 'no'
submitVoteBroadcastOtherIsYes(s, o) ==
    LET counted ==
            IF o.pid \in DOMAIN s.proposals
            THEN IF o.vote = "no"
                 THEN [s EXCEPT !.proposals[o.pid].votesNo = @ + 1]
                 ELSE [s EXCEPT !.proposals[o.pid].votesYes = @ + 1]
            ELSE s
        recorded == addTransaction(counted, [type |-> "Vote", target |-> o.pid])
    IN  setLoading([recorded EXCEPT !.toast = Success(VoteConfirmedToast),
                                    !.analyzed = @ + 1], FALSE)

\* submitVote after its third sleep: the local update, the transaction, the
\* toast, AIService.analyzeTraffic() and setLoading(false)
submitVoteBroadcast(s, o) ==
    LET counted ==
            IF o.pid \in DOMAIN s.proposals
            THEN IF o.vote = "yes"
                 THEN [s EXCEPT !.proposals[o.pid].votesYes = @ + 1]
                 ELSE [s EXCEPT !.proposals[o.pid].votesNo = @ + 1]
            ELSE s
        recorded == addTransaction(counted, [type |-> "Vote", target |-> o.pid])
    IN  setLoading([recorded EXCEPT !.toast = Success(VoteConfirmedToast),
                                    !.analyzed = @ + 1], FALSE)

\* the calls of submitVote that can still be counted within the bound
VotesLeft == Len(store.user.transactions) + RunningCount("submitVote") < MaxVotes

\* the vote counts of the proposals drawn for the percentages
MaxCount == 10

\* a sidebar item: Router.navigate(page)
Navigate ==
    /\ \E page \in Pages \ {"proposal", store.currentPage} :
         store' = setPage(store, page, 0)
    /\ UNCHANGED <<react, router, sentiment, dao, ops>>

\* a card of the governance list: Router.navigate('proposal', {id})
OpenProposal ==
    /\ store.currentPage = "governance"
    /\ \E id \in DOMAIN store.proposals :
         store' = setPage(store, "proposal", id)
    /\ UNCHANGED <<react, router, sentiment, dao, ops>>

FetchProposalsSlept ==
    /\ \E o \in Running("fetchProposals") :
         /\ store' = fetchProposalsSlept(store)
         /\ ops' = Remove(ops, o)
    /\ UNCHANGED <<react, router, sentiment, dao>>

\* the button of the wallet page's prompt, rendered while no wallet is connected
ClickConnectWallet ==
    /\ store.currentPage = "wallet"
    /\ ~store.user.isConnected
    /\ InFlight < MaxOps
    /\ store' = setLoading(store, TRUE)
    /\ ops' = Add(ops, Operation("connectWallet", "sleep", 0, Null))
    /\ UNCHANGED <<react, router, sentiment, dao>>

ConnectWalletSlept ==
    /\ \E o \in Running("connectWallet") :
         /\ store' = connectWalletSlept(store)
         /\ ops' = Remove(ops, o)
    /\ UNCHANGED <<react, router, sentiment, dao>>

\* a vote button of the proposal page, rendered for an active proposal
VoteButtons ==
    IF /\ store.currentPage = "proposal"
       /\ store.activeProposalId \in DOMAIN store.proposals
       /\ store.proposals[store.activeProposalId].status = "Active"
    THEN {"yes", "no"}
    ELSE {}

ClickVoteButton ==
    /\ InFlight < MaxOps
    /\ VotesLeft
    /\ \E vote \in VoteButtons : submitVote(store.activeProposalId, vote)
    /\ UNCHANGED <<react, router, sentiment, dao>>

\* window.BlockchainService.submitVote called past the buttons
CallSubmitVote ==
    /\ InFlight < MaxOps
    /\ VotesLeft
    /\ \E proposalId \in ProposalArgs : \E vote \in VoteArgs :
         submitVote(proposalId, vote)
    /\ UNCHANGED <<react, router, sentiment, dao>>

\* the sleeps of submitVote have ended: the code between them only logs, so
\* the three are one stage
SubmitVoteSlept ==
    /\ \E o \in Running("submitVote") :
         /\ ops' = Remove(ops, o)
         /\ store' = submitVoteBroadcast(store, o)
    /\ UNCHANGED <<react, router, sentiment, dao>>

\* the algosdk script: userAccount and the latest alert
DaoInit == [userAccount |-> Null, alert |-> Null]
DaoAccount == "HEE3...7Z"
DaoConnectFirst == "Please connect your wallet first!"
DaoFailed == "Transaction failed. Check console for details."

\* connectWallet() of the script: the connection is a timer of 1500 ms
DaoClickConnect ==
    /\ DaoInFlight < MaxDaoOps
    /\ ops' = Add(ops, Operation("setTimeout", "1500", 0, Null))
    /\ UNCHANGED <<react, router, sentiment, store, dao>>

\* the timer's callback: userAccount is set and fetchGovernanceData() is called
DaoConnected ==
    /\ \E o \in Running("setTimeout") :
         ops' = Add(Remove(ops, o), Operation("fetchGovernanceData", "getApplicationByID", 0, Null))
    /\ dao' = [dao EXCEPT !.userAccount = DaoAccount]
    /\ UNCHANGED <<react, router, sentiment, store>>

\* fetchGovernanceData settles: it updates the bars or logs, and no state
DaoGovernanceSettled ==
    /\ \E o \in Running("fetchGovernanceData") : ops' = Remove(ops, o)
    /\ UNCHANGED <<react, router, sentiment, store, dao>>

\* confirmVote without its check of userAccount
confirmVoteUnchecked(voteType) ==
    /\ dao' = dao
    /\ ops' = Add(ops, Operation("confirmVote", "getTransactionParams", 0, voteType))

\* confirmVote up to its first await
confirmVote(voteType) ==
    IF ~Truthy(dao.userAccount)
    THEN /\ dao' = [dao EXCEPT !.alert = DaoConnectFirst]
         /\ ops' = ops
    ELSE /\ dao' = dao
         /\ ops' = Add(ops, Operation("confirmVote", "getTransactionParams", 0, voteType))

\* the submit button of the vote
DaoClickVote ==
    /\ Truthy(dao.userAccount) => DaoInFlight < MaxDaoOps
    /\ \E voteType \in {"yes", "no"} : confirmVote(voteType)
    /\ UNCHANGED <<react, router, sentiment, store>>

\* confirmVote from a promise settling to its next await or its end; thrown:
\* the algod request was rejected or makeApplicationNoOpTxn threw
DaoVoteSettled ==
    /\ \E o \in Running("confirmVote") : \E thrown \in BOOLEAN :
         CASE o.stage = "getTransactionParams" /\ thrown ->
                /\ ops' = Remove(ops, o)
                /\ dao' = [dao EXCEPT !.alert = DaoFailed]
           [] o.stage = "getTransactionParams" /\ ~thrown ->
                /\ ops' = Add(Remove(ops, o), [o EXCEPT !.stage = "signature"])
                /\ dao' = dao
           [] o.stage = "signature" ->
                /\ ops' = Add(Remove(ops, o), [o EXCEPT !.stage = "POST /track-vote"])
                /\ dao' = dao
           [] o.stage = "POST /track-vote" ->
                \* logVoteToAnalytics swallows a failure; fetchGovernanceData()
                /\ ops' = Add(Remove(ops, o),
                              Operation("fetchGovernanceData", "getApplicationByID", 0, Null))
                /\ dao' = dao
    /\ UNCHANGED <<react, router, sentiment, store>>

PercentNext ==
    \/ Navigate
    \/ OpenProposal

VanillaNext ==
    \/ Navigate
    \/ OpenProposal
    \/ FetchProposalsSlept
    \/ ClickConnectWallet
    \/ ConnectWalletSlept
    \/ ClickVoteButton
    \/ CallSubmitVote
    \/ SubmitVoteSlept
    \/ DaoClickConnect
    \/ DaoConnected
    \/ DaoGovernanceSettled
    \/ DaoClickVote
    \/ DaoVoteSettled

(***************************************************************************)
(* AIService.getSentiment.  A text is a sequence of characters.  A double  *)
(* is a sign and a magnitude counted in units of 2^-54, held in two limbs  *)
(* of 27 bits: every value the function passes through is below 2^55      *)
(* units, and sums of limbs stay within 32 bits.                           *)
(***************************************************************************)
MaxWords == 6

Base == 134217728

Zero == [neg |-> FALSE, hi |-> 0, lo |-> 0]
\* the double 1: 2^54 units
One == [neg |-> FALSE, hi |-> Base, lo |-> 0]
\* the double the literal 0.2 denotes: 3602879701896397 units
Fifth == [neg |-> FALSE, hi |-> 26843545, lo |-> 80530637]
\* one unit, 2^-54
Unit == [neg |-> FALSE, hi |-> 0, lo |-> 1]

MagLess(a, b) == a.hi < b.hi \/ (a.hi = b.hi /\ a.lo < b.lo)
MagAdd(a, b) ==
    [hi |-> a.hi + b.hi + (a.lo + b.lo) \div Base, lo |-> (a.lo + b.lo) % Base]
\* for a not below b
MagSub(a, b) ==
    IF a.lo < b.lo
    THEN [hi |-> a.hi - b.hi - 1, lo |-> a.lo - b.lo + Base]
    ELSE [hi |-> a.hi - b.hi, lo |-> a.lo - b.lo]
\* zero carries no sign here: the function never produces -0 from its sums
Signed(neg, m) == [neg |-> neg /\ (m.hi # 0 \/ m.lo # 0), hi |-> m.hi, lo |-> m.lo]
Negate(x) == Signed(~x.neg, x)
Less(x, y) ==
    IF x.neg # y.neg THEN x.neg
    ELSE IF x.neg THEN MagLess(y, x) ELSE MagLess(x, y)

\* the sum of two values, not rounded
Sum(x, y) ==
    IF x.neg = y.neg THEN Signed(x.neg, MagAdd(x, y))
    ELSE IF MagLess(x, y) THEN Signed(y.neg, MagSub(y, x))
    ELSE Signed(x.neg, MagSub(x, y))

\* round to nearest, ties to even: 53 bits are kept, so below 2^53 units a
\* value is kept, below 2^54 it goes to a multiple of 2, below 2^55 of 4
RoundToDouble(x) ==
    LET up(d) == Signed(x.neg, MagAdd(x, [hi |-> 0, lo |-> d]))
        down(d) == Signed(x.neg, MagSub(x, [hi |-> 0, lo |-> d]))
    IN  IF x.hi < Base \div 2 THEN x
        ELSE IF x.hi < Base THEN
            IF x.lo % 2 = 0 THEN x
            ELSE IF (x.lo + 1) % 4 = 0 THEN up(1) ELSE down(1)
        ELSE CASE x.lo % 4 = 0 -> x
               [] x.lo % 4 = 1 -> down(1)
               [] x.lo % 4 = 3 -> up(1)
               [] x.lo % 4 = 2 -> IF (x.lo + 2) % 8 = 0 THEN up(2) ELSE down(2)

\* x + y of doubles; x - y is x + (-y)
Plus(x, y) == RoundToDouble(Sum(x, y))
MathMax(x, y) == IF Less(x, y) THEN y ELSE x
MathMin(x, y) == IF Less(y, x) THEN y ELSE x

UpperCase == <<"A", "B", "C", "D", "E", "F", "G", "H", "I", "J", "K", "L", "M", "N", "O", "P", "Q", "R", "S", "T", "U", "V", "W", "X", "Y", "Z">>
LowerCase == <<"a", "b", "c", "d", "e", "f", "g", "h", "i", "j", "k", "l", "m", "n", "o", "p", "q", "r", "s", "t", "u", "v", "w", "x", "y", "z">>
Mapped(c, from, to) ==
    IF \E i \in 1..Len(from) : from[i] = c
    THEN to[CHOOSE i \in 1..Len(from) : from[i] = c]
    ELSE c

\* the text taken as typed, toLowerCase() left out
toLowerCaseOmitted(text) == text

\* String.prototype.toLowerCase and toUpperCase on the characters of the model
toLowerCase(text) == [i \in 1..Len(text) |-> Mapped(text[i], UpperCase, LowerCase)]
toUpperCase(text) == [i \in 1..Len(text) |-> Mapped(text[i], LowerCase, UpperCase)]

\* String.prototype.includes
includes(text, word) ==
    \E i \in 0..(Len(text) - Len(word)) : SubSeq(text, i + 1, i + Len(word)) = word

positiveWords ==
    <<<<"u", "p", "g", "r", "a", "d", "e">>,
      <<"i", "m", "p", "r", "o", "v", "e">>,
      <<"b", "u", "d", "g", "e", "t">>,
      <<"g", "o", "o", "d">>,
      <<"b", "e", "n", "e", "f", "i", "t">>>>
negativeWords ==
    <<<<"c", "u", "t">>,
      <<"r", "e", "m", "o", "v", "e">>,
      <<"r", "e", "s", "t", "r", "i", "c", "t">>,
      <<"b", "a", "d">>,
      <<"c", "o", "s", "t">>>>

\* words.forEach(w => { if (text.toLowerCase().includes(w)) score += step; })
RECURSIVE forEach(_, _, _, _)
forEach(words, text, step, score) ==
    IF words = << >> THEN score
    ELSE forEach(Tail(words), text, step,
                 IF includes(toLowerCase(text), Head(words))
                 THEN Plus(score, step)
                 ELSE score)

getSentiment(proposalText) ==
    LET score == forEach(negativeWords, proposalText, Negate(Fifth),
                         forEach(positiveWords, proposalText, Fifth, Zero))
    IN  MathMin(MathMax(score, Negate(One)), One)

\* the texts of the model: they start with a word that is no keyword and hold
\* the chosen keywords, each in lower case, in upper case, capitalised, or
\* written twice
Keywords == positiveWords \o negativeWords
Styles == {"lower", "UPPER", "Capital", "twice"}
Space == <<" ">>
Styled(word, style) ==
    CASE style = "lower" -> word
      [] style = "UPPER" -> toUpperCase(word)
      [] style = "Capital" -> toUpperCase(<<Head(word)>>) \o Tail(word)
      [] style = "twice" -> word \o Space \o word

RECURSIVE Written(_, _, _)
Written(i, chosen, style) ==
    IF i > Len(Keywords) THEN << >>
    ELSE (IF i \in chosen THEN Space \o Styled(Keywords[i], style) ELSE << >>)
            \o Written(i + 1, chosen, style)

TextOf(chosen, style) == <<"v", "o", "t", "e">> \o Written(1, chosen, style)

\* a call of getSentiment: its argument, and its result once it has returned
SentimentCall(chosen, style) ==
    [chosen |-> chosen, style |-> style, text |-> TextOf(chosen, style),
     returned |-> FALSE, score |-> Zero]
NoSentimentCall == SentimentCall({}, "lower")
SentimentCalls ==
    {SentimentCall(chosen, style) :
        chosen \in {c \in SUBSET (1..Len(Keywords)) : Cardinality(c) <= MaxWords},
        style \in Styles}

CallGetSentiment ==
    /\ ~sentiment.returned
    /\ sentiment' = [sentiment EXCEPT !.returned = TRUE,
                                      !.score = getSentiment(sentiment.text)]
    /\ UNCHANGED <<react, store, dao, ops, router>>

SentimentNext == CallGetSentiment

(***************************************************************************)
(* Router and the session history of the browser.  Store.setPage pushes an *)
(* entry on every call; VanillaSpec follows Store.state alone, RouterSpec  *)
(* follows the history with it.                                            *)
(***************************************************************************)
MaxHistory == 4

\* a URL of the app by its search parameters; Null and 0: the parameter is absent
Url(page, id) == [page |-> page, id |-> id]

\* window.history and whether the popstate listener is registered
RouterInit == [entries |-> <<Url(Null, 0)>>, index |-> 1, listening |-> FALSE]

\* window.location
location(h) == h.entries[h.index]

\* params.get('page') || ROUTES.DASHBOARD
PageOf(url) == IF url.page = Null THEN "dashboard" ELSE url.page

\* history.pushState: the entries after the current one are dropped
pushState(h, url) ==
    [h EXCEPT !.entries = SubSeq(h.entries, 1, h.index) \o <<url>>,
              !.index = h.index + 1]

\* Store.setPage with the entry it pushes
navigate(h, page, id) ==
    /\ store' = setPage(store, page, id)
    /\ router' = pushState(h, Url(page, id))

\* the browser has moved to another entry and fires popstate
popstate(h) ==
    IF h.listening
    THEN navigate(h, PageOf(location(h)), location(h).id)
    ELSE /\ store' = store
         /\ router' = h

\* Router.init(), called when fetchProposals has returned
RouterStart ==
    /\ ~router.listening
    /\ RunningCount("fetchProposals") = 0
    /\ navigate([router EXCEPT !.listening = TRUE],
                PageOf(location(router)), location(router).id)
    /\ UNCHANGED <<react, sentiment, dao, ops>>

\* a sidebar item: Router.navigate(page)
RouterNavigate ==
    /\ router.index < MaxHistory
    /\ \E page \in Pages \ {"proposal", store.currentPage} : navigate(router, page, 0)
    /\ UNCHANGED <<react, sentiment, dao, ops>>

\* a card of the governance list: Router.navigate('proposal', {id})
RouterOpenProposal ==
    /\ router.index < MaxHistory
    /\ store.currentPage = "governance"
    /\ \E id \in DOMAIN store.proposals : navigate(router, "proposal", id)
    /\ UNCHANGED <<react, sentiment, dao, ops>>

\* the Back button of the browser
Back ==
    /\ router.index > 1
    /\ popstate([router EXCEPT !.index = @ - 1])
    /\ UNCHANGED <<react, sentiment, dao, ops>>

\* the Forward button of the browser
Forward ==
    /\ router.index < Len(router.entries)
    /\ popstate([router EXCEPT !.index = @ + 1])
    /\ UNCHANGED <<react, sentiment, dao, ops>>

RouterNext ==
    \/ FetchProposalsSlept
    \/ RouterStart
    \/ RouterNavigate
    \/ RouterOpenProposal
    \/ Back
    \/ Forward

(***************************************************************************)
(* The application driven through its rendered controls                    *)
(***************************************************************************)
\* the React application as mounted
ReactInit ==
    /\ activeTab = "overview"
    /\ walletAddress = Null
    /\ wc = WalletConnectInit
    /\ pf = ProposalFormInit
    /\ vp = VotingPanelInit
    /\ ap = AttendancePanelInit
    /\ cp = CertificatePanelInit
    /\ ad = AnalyticsDashboardInit
    /\ inflight = MountCalls("overview")
                  (+) SetToBag({Call("reconnectSession", "reconnectSession", 0, Null, Null)})
    /\ triggered = 0
    /\ posted = 0

Init ==
    /\ ReactInit
    /\ store = setLoading(StoreInit, TRUE)
    /\ dao = DaoInit
    /\ ops = SetToBag({Operation("fetchProposals", "sleep", 0, Null)})
    /\ router = RouterInit
    /\ sentiment = NoSentimentCall

\* the proposals are loaded, and proposal 1042 has any counts within the bound
PercentInit ==
    /\ ReactInit
    /\ \E votesYes \in 0..MaxCount : \E votesNo \in 0..MaxCount :
         store = setProposals(StoreInit,
                     [mockProposals EXCEPT ![1042].votesYes = votesYes,
                                           ![1042].votesNo = votesNo])
    /\ dao = DaoInit
    /\ ops = EmptyBag
    /\ router = RouterInit
    /\ sentiment = NoSentimentCall

\* getSentiment is about to be called with a text of the model
SentimentInit ==
    /\ ReactInit
    /\ store = setLoading(StoreInit, TRUE)
    /\ dao = DaoInit
    /\ ops = SetToBag({Operation("fetchProposals", "sleep", 0, Null)})
    /\ router = RouterInit
    /\ sentiment \in SentimentCalls

Next ==
    \/ SetActiveTab
    \/ ReconnectSettled
    \/ ClickConnect
    \/ ConnectSettled
    \/ ClickDisconnect
    \/ ChangeTitle
    \/ ChangeDescription
    \/ SubmitForm
    \/ SubmitSettled
    \/ ClickProposal
    \/ ProposalsSettled
    \/ DetailsSettled
    \/ ClickVote
    \/ VoteSettled
    \/ StatusSettled
    \/ ClickMark
    \/ MarkSettled
    \/ ChangeCertificateId
    \/ SubmitVerify
    \/ VerifySettled
    \/ AnalyticsSettled

Spec == Init /\ [][Next]_vars

\* the vanilla implementation driven through its controls and its services
VanillaSpec == Init /\ [][VanillaNext]_vars
RouterSpec == Init /\ [][RouterNext]_vars
PercentSpec == PercentInit /\ [][PercentNext]_vars
SentimentSpec == SentimentInit /\ [][SentimentNext]_vars

\* every request of a mutating handler eventually completes; one panel is
\* mounted at a time, so at most one of these steps is enabled
Settled == SubmitSettled \/ VoteSettled \/ MarkSettled \/ VerifySettled

Fairness == WF_vars(Settled)

FairSpec == Spec /\ Fairness

(***************************************************************************)
(* The handlers called while no wallet is connected, past the disabled     *)
(* attribute of their control (a submit event dispatched on the form, a    *)
(* call of the handler itself): the case their own wallet check is for.    *)
(***************************************************************************)
CallHandleSubmit ==
    /\ activeTab = "proposals"
    /\ ~Truthy(walletAddress)
    /\ PendingCount("handleSubmit") < MaxInflight
    /\ handleSubmit
    /\ Count
    /\ UNCHANGED <<app, vp, ap, cp, ad, vanilla>>

CallHandleVote ==
    /\ activeTab = "voting"
    /\ ~Truthy(walletAddress)
    /\ PendingCount("handleVote") < MaxInflight
    /\ \E p \in ProposalIds : \E vote \in Votes : handleVote(p, vote)
    /\ Count
    /\ UNCHANGED <<app, pf, ap, cp, ad, vanilla>>

CallHandleMarkAttendance ==
    /\ activeTab = "attendance"
    /\ ~Truthy(walletAddress)
    /\ PendingCount("handleMarkAttendance") < MaxInflight
    /\ handleMarkAttendance
    /\ Count
    /\ UNCHANGED <<app, pf, vp, cp, ad, vanilla>>

NextHandlers ==
    \/ Next
    \/ CallHandleSubmit
    \/ CallHandleVote
    \/ CallHandleMarkAttendance

SpecHandlers == Init /\ [][NextHandlers]_vars

(***************************************************************************)
(* Properties                                                              *)
(***************************************************************************)
\* a step that calls the mutating handler of the panel shown
HandlerCalled == triggered' = triggered + 1

TitleValid == Len(Trim(pf.title)) >= MinTitleLen
DescriptionValid == Len(Trim(pf.description)) >= MinDescLen

\* C1: a call of handleSubmit, handleVote or handleMarkAttendance while no
\* wallet is connected shows 'Please connect your wallet first', sends no
\* request and leaves the in-flight flag as it was, whatever the form holds
\* and whatever the arguments.
C1_WalletRequired ==
    [][(HandlerCalled /\ ~Truthy(walletAddress)
            /\ activeTab \in {"proposals", "voting", "attendance"}) =>
        /\ inflight' = inflight
        /\ posted' = posted
        /\ activeTab = "proposals" =>
             /\ pf'.message = Error(ConnectWalletFirst)
             /\ pf'.isSubmitting = pf.isSubmitting
        /\ activeTab = "voting" =>
             /\ vp'.message = Error(ConnectWalletFirst)
             /\ vp'.isVoting = vp.isVoting
        /\ activeTab = "attendance" =>
             /\ ap'.message = Error(ConnectWalletFirst)
             /\ ap'.isMarking = ap.isMarking]_vars

\* handleSubmit was called with a valid form and no wallet
C1_Witness ==
    /\ activeTab = "proposals"
    /\ ~Truthy(walletAddress)
    /\ TitleValid
    /\ DescriptionValid
    /\ triggered > 0
    /\ pf.message = Error(ConnectWalletFirst)
    /\ ~pf.isSubmitting
    /\ PendingCount("handleSubmit") = 0

\* C2: with a wallet connected, submitting a title shorter than MinTitleLen
\* once trimmed shows a validation error of the title and sends no POST,
\* whatever the description.
C2_ShortTitleRejected ==
    [][(HandlerCalled /\ activeTab = "proposals" /\ Truthy(walletAddress)
            /\ ~TitleValid) =>
        /\ pf'.message \in {Error(TitleMissing), Error(TitleTooShort)}
        /\ ~pf'.isSubmitting
        /\ inflight' = inflight
        /\ posted' = posted]_vars

\* a title of MinTitleLen characters or more as typed, too short once trimmed,
\* was rejected beside a valid description
C2_Witness ==
    /\ activeTab = "proposals"
    /\ Truthy(walletAddress)
    /\ Len(pf.title) >= MinTitleLen
    /\ ~TitleValid
    /\ DescriptionValid
    /\ triggered > 0
    /\ posted = 0
    /\ pf.message = Error(TitleTooShort)

\* C3: with a wallet connected and a valid title, submitting a description
\* shorter than MinDescLen once trimmed shows a validation error of the
\* description and sends no POST; a POST is sent only when the trimmed title
\* has MinTitleLen characters or more and the trimmed description MinDescLen
\* or more.
C3_ShortDescriptionRejected ==
    [][(HandlerCalled /\ activeTab = "proposals" /\ Truthy(walletAddress)) =>
        /\ (TitleValid /\ ~DescriptionValid) =>
             /\ pf'.message \in {Error(DescriptionMissing), Error(DescriptionTooShort)}
             /\ ~pf'.isSubmitting
             /\ inflight' = inflight
             /\ posted' = posted
        /\ (posted' > posted \/ inflight' # inflight) =>
             (TitleValid /\ DescriptionValid)]_vars

\* a description of MinDescLen characters or more as typed, too short once
\* trimmed, was rejected beside a valid title
C3_Witness ==
    /\ activeTab = "proposals"
    /\ Truthy(walletAddress)
    /\ TitleValid
    /\ Len(pf.description) >= MinDescLen
    /\ ~DescriptionValid
    /\ triggered > 0
    /\ posted = 0
    /\ pf.message = Error(DescriptionTooShort)

\* transactionHash if present, else txId if present, else the placeholder
ExpectedHash(r) ==
    IF Truthy(r.body.data.transactionHash) THEN r.body.data.transactionHash
    ELSE IF Truthy(r.body.data.txId) THEN r.body.data.txId
    ELSE Placeholder

\* C4: every 2xx response to the POST of a proposal, a vote or an attendance
\* mark sets a message of type success and the hash shown to the response's
\* transactionHash if present, else its txId if present, else 'TX-<timestamp>'.
C4_SuccessShowsHash ==
    [][\A r \in TxResponses : (~r.thrown /\ r.ok) =>
        /\ \A c \in Pending("handleSubmit") :
             handleSubmitSettled(c, r) =>
                /\ pf'.message.type = "success"
                /\ pf'.transactionHash = ExpectedHash(r)
        /\ \A c \in Pending("handleVote") :
             (c.stage = "POST /api/vote" /\ handleVoteSettled(c, r)) =>
                /\ vp'.message.type = "success"
                /\ vp'.transactionHash = ExpectedHash(r)
        /\ \A c \in Pending("handleMarkAttendance") :
             (c.stage = "POST /api/attendance" /\ handleMarkAttendanceSettled(c, r)) =>
                /\ ap'.message.type = "success"
                /\ ap'.transactionHash = ExpectedHash(r)]_vars

\* C5: every non-2xx response to the POST of a proposal, a vote, an
\* attendance mark or a certificate verification, whatever its body, shows an
\* error whose text is the server's error text if provided, else the
\* 'Failed to ...' fallback of that action.
C5_ServerErrorShown ==
    [][/\ \A r \in TxResponses : (~r.thrown /\ ~r.ok) =>
            /\ \A c \in Pending("handleSubmit") :
                 handleSubmitSettled(c, r) =>
                    pf'.message = Error(OrElse(r.body.data.error, ProposalFailed))
            /\ \A c \in Pending("handleVote") :
                 (c.stage = "POST /api/vote" /\ handleVoteSettled(c, r)) =>
                    vp'.message = Error(OrElse(r.body.data.error, VoteFailed))
            /\ \A c \in Pending("handleMarkAttendance") :
                 (c.stage = "POST /api/attendance" /\ handleMarkAttendanceSettled(c, r)) =>
                    ap'.message = Error(OrElse(r.body.data.error, AttendanceFailed))
       /\ \A r \in VerifyResponses : (~r.thrown /\ ~r.ok) =>
            \A c \in Pending("handleVerify") :
                 handleVerifySettled(c, r) =>
                    cp'.message = Error(OrElse(r.body.data.error, VerifyFailed))]_vars

\* the handlers that send a POST, their in-flight flags and their controls
Mutating == {"handleSubmit", "handleVote", "handleMarkAttendance", "handleVerify"}

InFlightFlag(op) ==
    CASE op = "handleSubmit" -> pf.isSubmitting
      [] op = "handleVote" -> vp.isVoting
      [] op = "handleMarkAttendance" -> ap.isMarking
      [] op = "handleVerify" -> cp.isVerifying

ControlDisabled(op) ==
    CASE op = "handleSubmit" -> SubmitDisabled
      [] op = "handleVote" -> VoteDisabled
      [] op = "handleMarkAttendance" -> MarkDisabled
      [] op = "handleVerify" -> VerifyDisabled

Failed(r) == r.thrown \/ ~r.ok

C10_BackendOrMock ==
    [][\A c \in Pending("fetchAnalytics") : \A r \in AnalyticsResponses :
        (ad' = fetchAnalyticsSettled(ad, r) /\ inflight' = Remove(inflight, c)) =>
            /\ ~ad'.isLoading
            /\ ad'.analytics =
                 IF ~r.thrown /\ r.ok /\ r.body.json # "unparseable"
                 THEN (IF r.body.json = "null" THEN Null ELSE BackendAnalytics)
                 ELSE MockAnalytics]_vars

\* the dashboard finished loading with the mock data
C10_Witness ==
    /\ activeTab \in {"overview", "analytics"}
    /\ PendingCount("fetchAnalytics") = 0
    /\ ~ad.isLoading
    /\ ad.analytics = MockAnalytics

\* C11: the certificate details are shown only after the latest verification
\* sent a certificate ID that is not empty once trimmed and was answered 2xx
\* with valid true: they appear only in such a step, every call of
\* handleVerify clears them and the message first, an ID that is empty once
\* trimmed gives an error and no request, and a 2xx answer whose valid is
\* false gives 'Certificate not found or invalid'.
C11_DetailsOnlyWhenValid ==
    [][/\ (Truthy(cp'.certificateDetails)
              /\ cp'.certificateDetails # cp.certificateDetails) =>
            \E c \in Pending("handleVerify") : \E r \in VerifyResponses :
                /\ ~r.thrown /\ r.ok /\ r.body.json = "object"
                /\ r.body.data.valid = "true"
                /\ cp'.certificateDetails = r.body.data.certificate
                /\ handleVerifySettled(c, r)
       /\ Truthy(cp'.certificateDetails) =>
            /\ cp'.message = Success(CertificateVerified)
            /\ ~cp'.isVerifying
       /\ (HandlerCalled /\ activeTab = "certificates") =>
            /\ ~Truthy(cp'.certificateDetails)
            /\ IF Len(Trim(cp.certificateId)) = 0
               THEN /\ cp'.message = Error(CertificateIdMissing)
                    /\ ~cp'.isVerifying
                    /\ inflight' = inflight
                    /\ posted' = posted
               ELSE /\ cp'.message = NoMessage
                    /\ cp'.isVerifying
                    /\ posted' = posted + 1
       /\ \A c \in Pending("handleVerify") : \A r \in VerifyResponses :
            (~r.thrown /\ r.ok /\ r.body.json = "object"
                /\ r.body.data.valid = "false" /\ handleVerifySettled(c, r)) =>
                (cp'.message = Error(CertificateInvalid)
                    /\ ~Truthy(cp'.certificateDetails))]_vars

\* a certificate ID typed with blanks around it was verified and its details
\* are shown
C11_Witness ==
    /\ activeTab = "certificates"
    /\ Len(Trim(cp.certificateId)) > 0
    /\ Len(cp.certificateId) > Len(Trim(cp.certificateId))
    /\ cp.certificateDetails = "CERT"
    /\ cp.message = Success(CertificateVerified)
    /\ ~cp.isVerifying
    /\ triggered > 0

\* C12: between handler executions the address App holds is the address
\* WalletConnect holds, an account of the wallet or null, whatever the
\* connects, disconnects and session reconnects so far.
C12_SameAddress ==
    /\ walletAddress = wc.accountAddress
    /\ walletAddress \in Addresses \cup {Null}

\* an account was connected by handleConnect, whose notification of the
\* backend is still awaited
C12_Witness ==
    /\ walletAddress \in Addresses
    /\ wc.accountAddress = walletAddress
    /\ wc.isConnecting
    /\ \E c \in Pending("handleConnect") :
         c.stage = "POST /api/wallet/connect" /\ c.wallet = walletAddress

\* the calls of handleConnect that wait for connect(), for the notification
Connecting == {c \in Pending("handleConnect") : c.stage = "peraWallet.connect"}
Notifying == {c \in Pending("handleConnect") : c.stage = "POST /api/wallet/connect"}

\* C13: a notification POST /api/wallet/connect that is rejected or answered
\* with a status that is not 2xx leaves the address of WalletConnect and of
\* App as they were, raises no alert and sets isConnecting to false; the
\* notification is sent only in a step in which connect() returned an
\* account, which both then hold.
C13_NotificationOptional ==
    [][/\ \A c \in Notifying : \A r \in NotifyResponses :
            (Failed(r) /\ wc' = notifySettled(wc, r)
                /\ inflight' = Remove(inflight, c)) =>
                /\ wc'.accountAddress = wc.accountAddress
                /\ walletAddress' = walletAddress
                /\ wc'.alert = Null
                /\ ~wc'.isConnecting
       /\ (Notifying' # {} /\ Notifying = {}) =>
            /\ Connecting # {}
            /\ wc'.accountAddress \in Addresses
            /\ walletAddress' = wc'.accountAddress
            /\ \A c \in Notifying' : c.wallet = wc'.accountAddress
            /\ wc'.isConnecting]_vars

\* handleConnect connected an account and ended after its notification,
\* while the session reconnect of the mount effect has not answered
C13_Witness ==
    /\ PendingCount("reconnectSession") = 1
    /\ PendingCount("handleConnect") = 0
    /\ walletAddress \in Addresses
    /\ wc.accountAddress = walletAddress
    /\ ~wc.isConnecting
    /\ wc.alert = Null

\* C14: when connect() rejects or returns no account, handleConnect ends
\* with the address of WalletConnect and of App as they were (null when the
\* wallet was disconnected), without a notification sent and with
\* isConnecting false, so that the Connect button can be used again.
C14_ConnectFailureHarmless ==
    [][(Connecting # {} /\ PendingCount("handleConnect")' = 0) =>
        /\ wc'.accountAddress = wc.accountAddress
        /\ walletAddress' = walletAddress
        /\ ~wc'.isConnecting
        /\ inflight' = Remove(inflight, CHOOSE c \in Connecting : TRUE)]_vars

\* connect() was rejected: the user was told, no wallet is connected and the
\* Connect button is enabled
C14_Witness ==
    /\ wc.alert = ConnectionCancelled
    /\ wc.accountAddress = Null
    /\ walletAddress = Null
    /\ ~wc.isConnecting
    /\ PendingCount("handleConnect") = 0

\* the calls of handleVote that wait at a stage, and a call moved to a stage
VoteCalls(stage) == {c \in Pending("handleVote") : c.stage = stage}
Moved(c, stage) == Add(Remove(inflight, c), [c EXCEPT !.stage = stage])

\* C15 as claimed: when POST /api/vote for a proposal is answered with a 2xx
\* status, handleVote requests GET /api/proposals/<that proposal>, and when
\* that has completed GET /api/proposals; the vote buttons are disabled as
\* long as the call has a request outstanding; when the POST is rejected or
\* answered with another status, handleVote ends without a refresh request.
C15_RefreshAfterVote ==
    [][/\ \A c \in VoteCalls("POST /api/vote") : \A r \in TxResponses :
            handleVoteSettled(c, r) =>
                IF Failed(r)
                THEN inflight' = Remove(inflight, c)
                ELSE /\ inflight' = Moved(c, "GET /api/proposals/:id")
                     /\ vp'.isVoting
       /\ \A c \in VoteCalls("GET /api/proposals/:id") :
            \A r \in DetailResponses(c.pid) :
                handleVoteSettled(c, r) =>
                    /\ inflight' = Moved(c, "GET /api/proposals")
                    /\ vp'.isVoting
       /\ \A c \in VoteCalls("GET /api/proposals") : \A r \in ListResponses :
            handleVoteSettled(c, r) =>
                /\ inflight' = Remove(inflight, c)
                /\ ~vp'.isVoting
       /\ (PendingCount("handleVote")' > 0) => VoteDisabled']_vars

\* the panels other than the one of the active tab are not mounted
Unmounted ==
    /\ activeTab # "proposals" => pf = ProposalFormInit
    /\ activeTab # "voting" => vp = VotingPanelInit
    /\ activeTab # "attendance" => ap = AttendancePanelInit
    /\ activeTab # "certificates" => cp = CertificatePanelInit
    /\ activeTab \notin {"overview", "analytics"} => ad = AnalyticsDashboardInit

\* C16: activeTab starts as 'overview' and is always one of the six tab ids;
\* the content of exactly one tab is rendered and no other panel holds
\* state; a step that changes activeTab leaves walletAddress and the state of
\* WalletConnect as they were, and a step that changes walletAddress leaves
\* activeTab as it was.
C16_TabsAndWalletIndependent ==
    /\ activeTab = "overview"
    /\ [](/\ activeTab \in Tabs
          /\ Cardinality(TabContent) = 1
          /\ Unmounted)
    /\ [][/\ activeTab' # activeTab => (walletAddress' = walletAddress /\ wc' = wc)
          /\ walletAddress' # walletAddress => activeTab' = activeTab]_vars

\* a tab other than the first is shown while a wallet is connected
C16_Witness ==
    /\ activeTab = "certificates"
    /\ walletAddress \in Addresses
    /\ wc.accountAddress = walletAddress
    /\ cp # CertificatePanelInit

\* no request of the voting panel is outstanding
VotingQuiet ==
    /\ PendingCount("fetchProposals") = 0
    /\ PendingCount("fetchProposalDetails") = 0
    /\ PendingCount("handleVote") = 0

\* C17 as claimed: once every request of the voting panel has completed, the
\* proposal shown as selectedProposal is the one the user selected last.
C17_LatestSelectionShown ==
    (activeTab = "voting" /\ VotingQuiet /\ vp.selectedProposal # NoProposal) =>
        vp.selectedProposal.id = vp.selected

\* what a vote does in the vanilla app: the counters, the transactions, the
\* analytics calls and the operations in flight
VoteEffects == <<store.proposals, store.user, store.analyzed, ops>>

\* a step in which submitVote, confirmVote is called while no wallet is connected
SubmitVoteNoWallet ==
    /\ ~store.user.isConnected
    /\ \E proposalId \in ProposalArgs \cup DOMAIN mockProposals : \E vote \in VoteArgs :
         submitVote(proposalId, vote)
ConfirmVoteNoWallet ==
    /\ ~Truthy(dao.userAccount)
    /\ \E voteType \in {"yes", "no"} : confirmVote(voteType)

\* C18 as claimed: a vote attempted while no wallet is connected reports an
\* error, changes no vote count, records no transaction, starts no operation
\* and no analytics call, and isLoading is false after it.
C18_NoWalletLoadingFalse ==
    [][/\ SubmitVoteNoWallet =>
            /\ store'.toast = Error(ConnectWalletFirstToast)
            /\ UNCHANGED VoteEffects
            /\ ~store'.isLoading
       /\ ConfirmVoteNoWallet =>
            /\ dao'.alert = DaoConnectFirst
            /\ dao'.userAccount = dao.userAccount
            /\ ops' = ops]_vars

\* C18: a vote attempted while no wallet is connected reports an error,
\* changes no vote count, records no transaction, starts no operation and no
\* analytics call, and leaves isLoading and every field of Store.state as
\* it was; in the script it alerts and leaves userAccount as it was.
C18_NoWalletNoVote ==
    [][/\ SubmitVoteNoWallet =>
            /\ store'.toast = Error(ConnectWalletFirstToast)
            /\ UNCHANGED VoteEffects
            /\ store'.isLoading = store.isLoading
            /\ store' = [store EXCEPT !.toast = store'.toast]
       /\ ConfirmVoteNoWallet =>
            /\ dao'.alert = DaoConnectFirst
            /\ dao'.userAccount = dao.userAccount
            /\ ops' = ops]_vars

\* both votes were refused during a connection delay: connectWallet of the
\* app sleeps with isLoading true, the timer of the script has not fired
C18_Witness ==
    /\ store.toast = Error(ConnectWalletFirstToast)
    /\ ~store.user.isConnected
    /\ store.isLoading
    /\ RunningCount("connectWallet") = 1
    /\ RunningCount("submitVote") = 0
    /\ store.user.transactions = <<>>
    /\ dao.alert = DaoConnectFirst
    /\ dao.userAccount = Null
    /\ RunningCount("setTimeout") = 1

\* C19: a call of submitVote for an existing proposal that completes adds 1
\* to votesYes of that proposal when the vote is 'yes' and to votesNo for any
\* other vote, leaves the other counter, the status, the other proposals and
\* the other fields of Store.state as they were, puts one 'Vote' transaction
\* for the proposal in front of user.transactions and leaves isLoading false.
C19_VoteCountedOnce ==
    [][\A o \in Running("submitVote") :
        (/\ o.pid \in DOMAIN store.proposals
         /\ store' = submitVoteBroadcast(store, o)
         /\ ops' = Remove(ops, o)) =>
            LET before == store.proposals[o.pid]
                after == store'.proposals[o.pid]
            IN  /\ store.user.isConnected
                /\ DOMAIN store'.proposals = DOMAIN store.proposals
                /\ after.votesYes = before.votesYes + (IF o.vote = "yes" THEN 1 ELSE 0)
                /\ after.votesNo = before.votesNo + (IF o.vote = "yes" THEN 0 ELSE 1)
                /\ after.status = before.status
                /\ \A id \in DOMAIN store.proposals \ {o.pid} :
                     store'.proposals[id] = store.proposals[id]
                /\ store'.user.transactions =
                     <<[type |-> "Vote", target |-> o.pid]>> \o store.user.transactions
                /\ store'.user.address = store.user.address
                /\ store'.user.isConnected = store.user.isConnected
                /\ store'.currentPage = store.currentPage
                /\ store'.activeProposalId = store.activeProposalId
                /\ ~store'.isLoading]_vars

\* two votes for proposal 1042 have completed, a 'yes' and one that is not
\* 'yes': the latest transaction comes first
C19_Witness ==
    /\ store.user.isConnected
    /\ 1042 \in DOMAIN store.proposals
    /\ Len(store.user.transactions) = 2
    /\ store.user.transactions[1].target = 1042
    /\ store.proposals[1042].votesYes = mockProposals[1042].votesYes + 1
    /\ store.proposals[1042].votesNo = mockProposals[1042].votesNo + 1
    /\ ~store.isLoading
    /\ InFlight = 0

\* C20 as claimed: at most one operation of BlockchainService is in flight,
\* and isLoading is true whenever one is.
C20_OneOperationLoading ==
    /\ InFlight <= 1
    /\ InFlight > 0 => store.isLoading

\* C26 as claimed: handleSubmit clears title and description when the response
\* is 2xx, and leaves them unchanged in every other outcome: no wallet, a
\* validation failure, a non-2xx response, a thrown error.
C26_ClearedExactlyOn2xx ==
    [][/\ \A c \in Pending("handleSubmit") : \A r \in TxResponses :
            handleSubmitSettled(c, r) =>
                IF ~r.thrown /\ r.ok
                THEN pf'.title = << >> /\ pf'.description = << >>
                ELSE pf'.title = pf.title /\ pf'.description = pf.description
       /\ (activeTab = "proposals" /\ handleSubmit) =>
            pf'.title = pf.title /\ pf'.description = pf.description]_vars

\* C27 as claimed: the attendance status and history shown by AttendancePanel
\* are those of the connected wallet; the history is shown only with a wallet.
C27_AttendanceOfCurrentWallet ==
    activeTab = "attendance" =>
        /\ ap.attendanceStatus \in {Null, Undefined, walletAddress}
        /\ Truthy(walletAddress) => ap.attendanceHistory \in {NoHistory, walletAddress}

\* C28 as claimed: once AnalyticsDashboard has stopped loading, analytics is
\* not null, whatever GET /api/analytics settled with.
C28_LoadedAnalyticsPresent ==
    activeTab = "analytics" => (~ad.isLoading => ad.analytics # Null)

\* C29: in ProposalForm, VotingPanel and AttendancePanel a transaction hash
\* is shown only next to a message of type 'success'.
C29_HashOnlyWithSuccess ==
    /\ Truthy(pf.transactionHash) => pf.message.type = "success"
    /\ Truthy(vp.transactionHash) => vp.message.type = "success"
    /\ Truthy(ap.transactionHash) => ap.message.type = "success"

\* a proposal was created and its hash is shown, and the form, typed again
\* and not submitted yet, no longer passes validateForm
C29_Witness ==
    /\ activeTab = "proposals"
    /\ Truthy(pf.transactionHash)
    /\ pf.message.type = "success"
    /\ pf.title # << >>
    /\ validateForm(pf.title, pf.description) # NoMessage
    /\ ~pf.isSubmitting

\* C21 as claimed: a proposal whose status is not 'Active' keeps the vote
\* counts of the initial load and is the target of no 'Vote' transaction.
C21_ClosedProposalsUnchanged ==
    \A id \in DOMAIN store.proposals :
        store.proposals[id].status # "Active" =>
            /\ store.proposals[id].votesYes = mockProposals[id].votesYes
            /\ store.proposals[id].votesNo = mockProposals[id].votesNo
            /\ \A i \in 1..Len(store.user.transactions) :
                 store.user.transactions[i].target # id

RECURSIVE SumVotes(_, _)
SumVotes(proposals, ids) ==
    IF ids = {} THEN 0
    ELSE LET id == CHOOSE i \in ids : TRUE
         IN  proposals[id].votesYes + proposals[id].votesNo
                + SumVotes(proposals, ids \ {id})

\* the sum over all proposals of votesYes + votesNo
TotalVotes(proposals) == SumVotes(proposals, DOMAIN proposals)

\* C22 as claimed: once the proposals are loaded, the votes counted since
\* the load are as many as the 'Vote' transactions recorded.
C22_VotesMatchTransactions ==
    RunningCount("fetchProposals") = 0 =>
        TotalVotes(store.proposals) =
            TotalVotes(mockProposals) + Len(store.user.transactions)

\* C30 as claimed: when an operation of BlockchainService finishes, the page
\* shows what renderApp computes from the state the operation leaves.
C30_RenderedWhenFinished ==
    [][InFlight' < InFlight => store'.view = renderApp(store')]_vars

\* how many of the five positive and of the five negative keywords the text
\* of the call was written with
Positive == Cardinality({i \in sentiment.chosen : i <= Len(positiveWords)})
Negative == Cardinality({i \in sentiment.chosen : i > Len(positiveWords)})

\* the doubles nearest to 1/5, 2/5, 3/5, 4/5 and 1: what the literals 0.2,
\* 0.4, 0.6, 0.8 and 1 denote
Literals ==
    <<Fifth,
      [neg |-> FALSE, hi |-> 53687091, lo |-> 26843546],
      [neg |-> FALSE, hi |-> 80530636, lo |-> 107374182],
      [neg |-> FALSE, hi |-> 107374182, lo |-> 53687092],
      One>>

\* the double nearest to k/5, for k in -5..5
Fifths(k) ==
    IF k = 0 THEN Zero
    ELSE IF k > 0 THEN Literals[k] ELSE Negate(Literals[-k])

\* C23 as claimed: the score is the double that 0.2 * p - 0.2 * n denotes,
\* for p positive and n negative keywords in the text.
C23_ScoreIsFifths ==
    sentiment.returned => sentiment.score = Fifths(Positive - Negative)

\* C23: the score lies within [-1, 1]; it is within 2^-53 of (p - n)/5, each
\* keyword counting once; it is 0 for a text with no keyword; and it is the
\* same for the text in lower case and in upper case.
C23_ScoreBoundedNearFifths ==
    sentiment.returned =>
        LET score == sentiment.score
            error == Sum(score, Negate(Fifths(Positive - Negative)))
        IN  /\ ~Less(One, score)
            /\ ~Less(score, Negate(One))
            /\ ~MagLess(Sum(Unit, Unit), error)
            /\ sentiment.chosen = {} => score = Zero
            /\ getSentiment(toLowerCase(sentiment.text)) = score
            /\ getSentiment(toUpperCase(sentiment.text)) = score

\* three positive and three negative keywords, each written twice: the score
\* returned is 2^-54, within the error and not 0
C23_Witness ==
    /\ sentiment.returned
    /\ sentiment.style = "twice"
    /\ Positive = 3
    /\ Negative = 3
    /\ sentiment.score = Unit

\* C24 as claimed: on the proposal page both percentages are 0 when no vote
\* was cast, and otherwise each lies in 0..100 and they sum to 100.
C24_PercentagesSumTo100 ==
    (store.view.page = "proposal" /\ store.view.proposal.status # "Proposal Not Found") =>
        LET shown == store.view.proposal
        IN  IF shown.votesYes + shown.votesNo = 0
            THEN shown.yesPercent = 0 /\ shown.noPercent = 0
            ELSE /\ shown.yesPercent \in 0..100
                 /\ shown.noPercent \in 0..100
                 /\ shown.yesPercent + shown.noPercent = 100

\* C25 as claimed: with the listener registered, Back renders the page of
\* the previous entry with its id, Forward that of the next entry, and
\* neither adds or removes an entry of the history.
C25_BackForwardRestore ==
    [][/\ (router.listening /\ Back) =>
            /\ router'.entries = router.entries
            /\ router'.index = router.index - 1
            /\ store'.currentPage = PageOf(router.entries[router.index - 1])
            /\ router.entries[router.index - 1].id # 0 =>
                 store'.activeProposalId = router.entries[router.index - 1].id
       /\ (router.listening /\ Forward) =>
            /\ router'.entries = router.entries
            /\ router'.index = router.index + 1
            /\ store'.currentPage = PageOf(router.entries[router.index + 1])]_vars

====
